---------------------------- MODULE Spec2Model ----------------------------
(***************************************************************************)
(* Sim2Blend: apply_mot_to_model (Sim2Blend/motion.py) and fpdata2locrot   *)
(* (Sim2Blend/forces.py) as state machines.                                *)
(*                                                                         *)
(* Text is a sequence of one-character strings, so that the header that   *)
(* numpy.savetxt writes and the header that the .csv path splits and      *)
(* slices are the same characters.  Times are integer ticks, TickHz ticks  *)
(* to the second.  Angles are integers in units of 45 degrees; rotation    *)
(* matrices have entries in {-1, 0, 1}, on which sqrt and atan2 are exact. *)
(***************************************************************************)
EXTENDS Integers, Sequences, FiniteSets, TLC

(***************************************************************************)
(* Bounds of the model.                                                    *)
(***************************************************************************)
MaxFrames == 2
MaxStep == 3
TickHz == 4
MaxBodies == 2
MaxCoords == 2
MaxCalls == 2
MaxEntities == 2
MaxRows == 2

VARIABLES
  \* ---- the world outside one call of apply_mot_to_model
  hasCollection,    \* bpy.data.collections has 'osimModel'
  objects,          \* names of the objects of that collection
  model_coords,     \* motion type of each coordinate of the .osim model
  model_bodySet,    \* body names of the .osim model, in body-set order
  mot_times,        \* independent column of the .mot file
  mot_matrix,       \* data matrix of the .mot file (rows of coordinate values)
  direction,        \* 'zup' or 'yup'
  export_to_csv,    \* module global export_to_csv
  file,             \* the pose .csv on disk: NoFile or [header, rows]
  fps,              \* bpy.data.scenes['Scene'].render.fps
  keyframes,        \* keyframes inserted in the scene, in order of insertion
  calls,            \* calls made on the OpenSim model, in order
  \* ---- one call of apply_mot_to_model
  callNo, ext, pc, err,
  times, motion_data_np, state, n, c, b,
  loc_rot_frame, loc_rot_frame_all, bodyNames, csv_np,
  \* ---- one call of fpdata2locrot
  fpc, ferr, fpNames, d, fi, fj, rotvals, scalevals, out

worldVars == <<hasCollection, objects, model_coords, model_bodySet, mot_times,
               mot_matrix, direction, export_to_csv>>
sceneVars == <<file, fps, keyframes, calls>>
callVars == <<callNo, ext, pc, err, times, motion_data_np, state, n, c, b,
              loc_rot_frame, loc_rot_frame_all, bodyNames, csv_np>>
forceVars == <<fpc, ferr, fpNames, d, fi, fj, rotvals, scalevals, out>>
vars == <<worldVars, sceneVars, callVars, forceVars>>

(***************************************************************************)
(* Text helpers (Python str operations).                                   *)
(***************************************************************************)
RECURSIVE Concat(_)
Concat(ss) == IF ss = <<>> THEN <<>> ELSE Head(ss) \o Concat(Tail(ss))

\* s[:-2]
DropLast2(s) == IF Len(s) <= 2 THEN <<>> ELSE SubSeq(s, 1, Len(s) - 2)

\* s[1:-2]
Slice1Minus2(s) == IF Len(s) <= 3 THEN <<>> ELSE SubSeq(s, 2, Len(s) - 2)

\* s.split(','): the pieces between consecutive commas, empty pieces included
SplitComma(s) ==
  LET commas == {i \in 1..Len(s) : s[i] = ","}
      pos(k) == CHOOSE p \in commas : Cardinality({q \in commas : q < p}) = k - 1
      cnt == Cardinality(commas) + 1
      from(k) == IF k = 1 THEN 1 ELSE pos(k - 1) + 1
      to(k) == IF k = cnt THEN Len(s) ELSE pos(k) - 1
  IN  [k \in 1..cnt |-> SubSeq(s, from(k), to(k))]

\* toks[1::6]
Stride6From1(toks) ==
  LET cnt == IF Len(toks) <= 1 THEN 0 ELSE ((Len(toks) - 2) \div 6) + 1
  IN  [k \in 1..cnt |-> toks[2 + 6 * (k - 1)]]

NoFile == [header |-> <<>>, rows |-> <<>>, present |-> FALSE]

(***************************************************************************)
(* The header line of the pose .csv.                                       *)
(***************************************************************************)
\* the six column suffixes of the f-string of line 159
Fields == << <<"_", "x">>, <<"_", "y">>, <<"_", "z">>,
             <<"_", "r", "o", "t", "x">>, <<"_", "r", "o", "t", "y">>,
             <<"_", "r", "o", "t", "z">> >>

\* f'{b}_x, {b}_y, {b}_z, {b}_rotx, {b}_roty, {b}_rotz, '
BodyCols(name) == Concat([k \in 1..6 |-> name \o Fields[k] \o <<",", " ">>])

\* 'times, ' + ''.join([...])[:-2]
bodyHeader(names) ==
  <<"t", "i", "m", "e", "s", ",", " ">>
    \o DropLast2(Concat([k \in 1..Len(names) |-> BodyCols(names[k])]))

\* numpy.savetxt(..., header=bodyHeader): the line is '# ' + header + newline
SavetxtHeader(names) == <<"#", " ">> \o bodyHeader(names) \o <<"\n">>

\* csv_header.split(',')[1::6], then b[1:-2] of each
ReadBodyNames(csv_header) ==
  LET toks == Stride6From1(SplitComma(csv_header))
  IN  [k \in 1..Len(toks) |-> Slice1Minus2(toks[k])]

(***************************************************************************)
(* Framerate.                                                              *)
(***************************************************************************)
\* Python int(): truncation toward zero of the quotient p / q, q # 0
TruncDiv(p, q) ==
  IF (p >= 0) = (q > 0) THEN (IF p >= 0 THEN p ELSE -p) \div (IF q > 0 THEN q ELSE -q)
  ELSE -((IF p >= 0 THEN p ELSE -p) \div (IF q > 0 THEN q ELSE -q))

\* nearest integer of p / q, for p >= 0 and q > 0
RoundDiv(p, q) == (2 * p + q) \div (2 * q)

\* round(len(times) / (times[-1] - times[0])), times in ticks
FpsRounded(ts) == RoundDiv(Len(ts) * TickHz, ts[Len(ts)] - ts[1])

\* int(len(times) / (times[-1] - times[0])), times in ticks
FpsOf(ts) == TruncDiv(Len(ts) * TickHz, ts[Len(ts)] - ts[1])

(***************************************************************************)
(* Matrices.                                                               *)
(***************************************************************************)
H_zup == << <<1, 0, 0, 0>>, <<0, 0, -1, 0>>, <<0, 1, 0, 0>>, <<0, 0, 0, 1>> >>

\* A @ B for 4x4 matrices
MatMul(A, B) ==
  [i \in 1..4 |-> [j \in 1..4 |->
     A[i][1] * B[1][j] + A[i][2] * B[2][j] + A[i][3] * B[3][j] + A[i][4] * B[4][j]]]

\* H.T
Transpose(A) == [i \in 1..4 |-> [j \in 1..4 |-> A[j][i]]]

\* np.block([[R, T.reshape(3,1)], [np.zeros(3), 1]])
Block(R, T) ==
  [i \in 1..4 |-> [j \in 1..4 |->
     IF i <= 3 /\ j <= 3 THEN R[i][j]
     ELSE IF i <= 3 THEN T[i]
     ELSE IF j <= 3 THEN 0 ELSE 1]]

\* np.sqrt on the integers this model feeds it
ISqrt(k) == CHOOSE r \in 0..k : r * r <= k /\ k < (r + 1) * (r + 1)

\* np.arctan2(y, x) in units of 45 degrees, for y, x in {-1, 0, 1}
Atan2(y, x) ==
  CASE y = 0 /\ x >= 0 -> 0
    [] y = 0 /\ x < 0 -> 4
    [] y > 0 /\ x > 0 -> 1
    [] y > 0 /\ x = 0 -> 2
    [] y > 0 /\ x < 0 -> 3
    [] y < 0 /\ x > 0 -> -1
    [] y < 0 /\ x = 0 -> -2
    [] y < 0 /\ x < 0 -> -3

\* sy = sqrt(R_mat[1,0]**2 + R_mat[0,0]**2)
SyOf(H) == ISqrt(H[2][1] * H[2][1] + H[1][1] * H[1][1])

\* sy > 1e-6
NonSingular(sy) == sy * 1000000 > 1

\* lines 133-144 with the singular branch reading the converted matrix throughout
LocRotConverted(H, R) ==
  LET sy == SyOf(H)
  IN  IF NonSingular(sy)
      THEN <<H[1][4], H[2][4], H[3][4],
             Atan2(H[3][2], H[3][3]), Atan2(-H[3][1], sy), Atan2(H[2][1], H[1][1])>>
      ELSE <<H[1][4], H[2][4], H[3][4],
             Atan2(-H[2][3], H[2][2]), Atan2(-H[3][1], sy), 0>>

\* lines 133-144: H is the (converted) matrix, R the rotation the model supplied
LocRot(H, R) ==
  LET sy == SyOf(H)
  IN  IF NonSingular(sy)
      THEN <<H[1][4], H[2][4], H[3][4],
             Atan2(H[3][2], H[3][3]), Atan2(-H[3][1], sy), Atan2(H[2][1], H[1][1])>>
      ELSE <<H[1][4], H[2][4], H[3][4],
             Atan2(-H[2][3], H[2][2]), Atan2(-R[3][1], sy), 0>>

\* if direction=='zup': H = H_zup @ H
UpAxis(dir, H) == IF dir = "zup" THEN MatMul(H_zup, H) ELSE H

(***************************************************************************)
(* The OpenSim model: a synthetic forward kinematics over quarter turns.   *)
(***************************************************************************)
RotSet == <<
  << <<1, 0, 0>>, <<0, 1, 0>>, <<0, 0, 1>> >>,     \* identity
  << <<0, -1, 0>>, <<1, 0, 0>>, <<0, 0, 1>> >>,    \* quarter turn about z
  << <<0, 0, 1>>, <<0, 1, 0>>, <<-1, 0, 0>> >>,    \* quarter turn about y
  << <<1, 0, 0>>, <<0, 0, -1>>, <<0, 1, 0>> >> >>  \* quarter turn about x

RECURSIVE SumVals(_)
SumVals(st) == IF st = <<>> THEN 0 ELSE Head(st).v + SumVals(Tail(st))

\* b.getTransformInGround(state): H_swig.R() and H_swig.T()
TransformInGround(st, bi) ==
  LET q == SumVals(st) \div 90
  IN  [R |-> RotSet[((q + bi) % Len(RotSet)) + 1], T |-> <<bi, q, q + bi>>]

\* state = model.initSystem(): every coordinate at its default value
initSystem(coords) == [k \in 1..Len(coords) |-> [unit |-> "default", v |-> 0]]

\* lines 101-104: rotational columns (motion type 1) go from degrees to radians
ToRadians(matrix, coords) ==
  [r \in 1..Len(matrix) |-> [k \in 1..Len(coords) |->
     IF coords[k] = 1 THEN [unit |-> "rad", v |-> matrix[r][k]]
     ELSE [unit |-> "raw", v |-> matrix[r][k]]]]

(***************************************************************************)
(* Inputs.                                                                 *)
(***************************************************************************)
BodyNamePool == { <<"p">>, <<"q", "2">>, <<"r", ",", "s">> }

Range(f) == {f[k] : k \in DOMAIN f}

\* body sets: names are distinct within a model
BodyLists ==
  UNION {{bl \in [1..len -> BodyNamePool] : Cardinality(Range(bl)) = len}
           : len \in 0..MaxBodies}

\* coordinate sets: motion types 1 (rotation) and 2 (translation) alternate
CoordSets == {[k \in 1..cc |-> IF k % 2 = 1 THEN 1 ELSE 2] : cc \in 0..MaxCoords}

\* uniformly sampled time columns, in ticks
TimeSeqs ==
  {[k \in 1..len |-> t0 + (k - 1) * step] :
     len \in 0..MaxFrames, t0 \in 0..1, step \in 0..MaxStep}

\* the .mot table of a time column: rows of coordinate values, in degrees
MotMatrix(ts, coords) ==
  [r \in 1..Len(ts) |-> [k \in 1..Len(coords) |-> 90 * ((r + k) % 4)]]

\* column counts of a pose .csv that did not come from this program
CsvColCounts == {1 + 6 * j + e : j \in 0..MaxBodies, e \in {0, 3}}

\* a pose .csv from elsewhere: the header of `names`, cols columns of numbers
ExternalCsv(names, ts, cols) ==
  [header |-> SavetxtHeader(names),
   rows |-> [r \in 1..Len(ts) |-> <<ts[r]>> \o [j \in 1..(cols - 1) |-> 10 * r + j]],
   present |-> TRUE]

IdleCall ==
  /\ callNo = 0 /\ ext = "" /\ pc = "idle" /\ err = "none"
  /\ times = <<>> /\ motion_data_np = <<>> /\ state = <<>>
  /\ n = 0 /\ c = 0 /\ b = 0
  /\ loc_rot_frame = <<>> /\ loc_rot_frame_all = <<>>
  /\ bodyNames = <<>> /\ csv_np = <<>>
  /\ fps = 0 /\ keyframes = <<>> /\ calls = <<>>

IdleForce ==
  /\ fpc = "off" /\ ferr = "none" /\ fpNames = <<>> /\ d = <<>> /\ fi = 0 /\ fj = 0
  /\ rotvals = <<>> /\ scalevals = <<>> /\ out = <<>>

\* a .osim model is loaded in the scene and a .mot file is at hand
InitMot ==
  /\ hasCollection = TRUE
  /\ model_bodySet \in BodyLists
  /\ objects \in {Range(model_bodySet),
                  Range(SubSeq(model_bodySet, 1, Len(model_bodySet) - 1))}
  /\ model_coords \in CoordSets
  /\ mot_times \in TimeSeqs
  /\ mot_matrix = MotMatrix(mot_times, model_coords)
  /\ direction \in {"zup", "yup"}
  /\ export_to_csv \in BOOLEAN
  /\ file = NoFile

\* a .osim model is loaded in the scene and a pose .csv is at hand
InitCsv ==
  /\ hasCollection = TRUE
  /\ model_bodySet \in BodyLists
  /\ objects = Range(model_bodySet)
  /\ model_coords = <<>> /\ mot_times = <<>> /\ mot_matrix = <<>>
  /\ direction = "zup" /\ export_to_csv = TRUE
  /\ \E ts \in TimeSeqs, cols \in CsvColCounts :
       file = ExternalCsv(model_bodySet, ts, cols)

\* no model was imported
InitNoModel ==
  /\ hasCollection = FALSE
  /\ model_bodySet = <<>> /\ objects = {}
  /\ model_coords = <<>> /\ mot_times = <<>> /\ mot_matrix = <<>>
  /\ direction = "zup" /\ export_to_csv = TRUE
  /\ file \in {NoFile, ExternalCsv(<<>>, <<0, 1>>, 1)}

Init == (InitMot \/ InitCsv \/ InitNoModel) /\ IdleCall /\ IdleForce

(***************************************************************************)
(* apply_mot_to_model, the .mot path.                                      *)
(***************************************************************************)
Fail(kind) == pc' = "done" /\ err' = kind

\* lines 74-109: up to the frame loop
CallMot ==
  /\ pc = "idle"
  /\ callNo' = callNo + 1 /\ ext' = ".mot"
  /\ IF ~hasCollection
     THEN /\ Fail("TypeError")
          /\ UNCHANGED <<fps, times, motion_data_np, state, bodyNames>>
     ELSE /\ times' = mot_times
          /\ IF Len(mot_times) = 0
             THEN /\ Fail("IndexError")
                  /\ UNCHANGED <<fps, motion_data_np, state, bodyNames>>
             ELSE IF mot_times[Len(mot_times)] = mot_times[1]
             THEN /\ Fail("ZeroDivisionError")
                  /\ UNCHANGED <<fps, motion_data_np, state, bodyNames>>
             ELSE /\ fps' = FpsOf(mot_times)
                  /\ bodyNames' = model_bodySet
                  /\ motion_data_np' = ToRadians(mot_matrix, model_coords)
                  /\ state' = initSystem(model_coords)
                  /\ pc' = "coords" /\ err' = "none"
  /\ n' = 0 /\ c' = 0 /\ b' = 0
  /\ loc_rot_frame' = <<>> /\ loc_rot_frame_all' = <<>>
  /\ UNCHANGED <<worldVars, forceVars, file, keyframes, calls, csv_np>>

\* the loop of line 113 has run through coordinateNames
CoordsDoneEarly == c + 1 >= Len(model_coords)

CoordsDone == c >= Len(model_coords)

\* line 114: model.getCoordinateSet().get(coord).setValue(state, motion_data_np[n,c])
SetValue ==
  /\ pc = "coords" /\ ~CoordsDone
  /\ state' = [state EXCEPT ![c + 1] = motion_data_np[n + 1][c + 1]]
  /\ calls' = Append(calls, [op |-> "setValue", idx |-> c, frame |-> n])
  /\ c' = c + 1
  /\ UNCHANGED <<worldVars, forceVars, file, fps, keyframes, callNo, ext, pc, err,
                 times, motion_data_np, n, b, loc_rot_frame, loc_rot_frame_all,
                 bodyNames, csv_np>>

\* line 117: loc_rot_frame = []
StartBodies ==
  /\ pc = "coords" /\ CoordsDone
  /\ pc' = "bodies" /\ b' = 0 /\ loc_rot_frame' = <<>>
  /\ UNCHANGED <<worldVars, forceVars, file, fps, keyframes, calls, callNo, ext, err, times,
                 motion_data_np, state, n, c, loc_rot_frame_all, bodyNames, csv_np>>

\* the 6 values line 144 adds to loc_rot_frame for one body
PoseValuesShort(st, bi) ==
  LET tig == TransformInGround(st, bi)
      H == UpAxis(direction, Block(tig.R, tig.T))
  IN  SubSeq(LocRot(H, tig.R), 1, 5)

PoseValues(st, bi) ==
  LET tig == TransformInGround(st, bi)
      H == UpAxis(direction, Block(tig.R, tig.T))
  IN  LocRot(H, tig.R)

\* lines 119-150: one body of one frame
BodyStep ==
  /\ pc = "bodies" /\ b < Len(model_bodySet)
  /\ LET tig == TransformInGround(state, b + 1)
         H == UpAxis(direction, Block(tig.R, tig.T))
     IN  /\ calls' = Append(calls, [op |-> "getTransformInGround", idx |-> b, frame |-> n])
         /\ loc_rot_frame' = IF export_to_csv
                             THEN loc_rot_frame \o PoseValues(state, b + 1)
                             ELSE loc_rot_frame
         /\ IF model_bodySet[b + 1] \in objects
            THEN /\ keyframes' = Append(keyframes,
                       [call |-> callNo, frame |-> n + 1, body |-> model_bodySet[b + 1],
                        pose |-> Transpose(H)])
                 /\ b' = b + 1
                 /\ UNCHANGED <<pc, err>>
            ELSE /\ Fail("KeyError")
                 /\ UNCHANGED <<keyframes, b>>
  /\ UNCHANGED <<worldVars, forceVars, file, fps, callNo, ext, times, motion_data_np,
                 state, n, c, loc_rot_frame_all, bodyNames, csv_np>>

\* lines 152-153, and the step of the loop of line 110
EndFrame ==
  /\ pc = "bodies" /\ b >= Len(model_bodySet)
  /\ loc_rot_frame_all' = IF export_to_csv
                          THEN Append(loc_rot_frame_all, loc_rot_frame)
                          ELSE loc_rot_frame_all
  /\ n' = n + 1 /\ c' = 0
  /\ pc' = IF n + 1 < Len(motion_data_np) THEN "coords" ELSE "export"
  /\ UNCHANGED <<worldVars, forceVars, file, fps, keyframes, calls, callNo, ext, err, times,
                 motion_data_np, state, b, loc_rot_frame, bodyNames, csv_np>>

\* lines 156-160: the time column goes in front, savetxt writes header and rows
ExportCsv ==
  /\ pc = "export"
  /\ file' = IF export_to_csv
             THEN [header |-> SavetxtHeader(bodyNames),
                   rows |-> [r \in 1..Len(loc_rot_frame_all) |->
                               <<times[r]>> \o loc_rot_frame_all[r]],
                   present |-> TRUE]
             ELSE file
  /\ pc' = "done"
  /\ UNCHANGED <<worldVars, forceVars, fps, keyframes, calls, callNo, ext, err, times,
                 motion_data_np, state, n, c, b, loc_rot_frame, loc_rot_frame_all,
                 bodyNames, csv_np>>

(***************************************************************************)
(* apply_mot_to_model, the .csv path.                                      *)
(***************************************************************************)
\* np.loadtxt squeezes: fewer than two rows, or one column, is not 2-D
Is2D(rows) == Len(rows) >= 2 /\ Len(rows[1]) >= 2

\* lines 164-175: up to the frame loop
CallCsv ==
  /\ pc \in {"idle", "done"} /\ file.present /\ callNo < MaxCalls
  /\ callNo' = callNo + 1 /\ ext' = ".csv"
  /\ IF ~hasCollection
     THEN /\ Fail("TypeError")
          /\ UNCHANGED <<fps, times, bodyNames, csv_np>>
     ELSE /\ csv_np' = file.rows
          /\ bodyNames' = ReadBodyNames(file.header)
          /\ IF ~Is2D(file.rows)
             THEN /\ Fail("IndexError")
                  /\ UNCHANGED <<fps, times>>
             ELSE /\ times' = [r \in 1..Len(file.rows) |-> file.rows[r][1]]
                  /\ IF file.rows[Len(file.rows)][1] = file.rows[1][1]
                     THEN /\ Fail("OverflowError")
                          /\ UNCHANGED fps
                     ELSE /\ fps' = FpsOf(times')
                          /\ pc' = "csvloop" /\ err' = "none"
  /\ n' = 0 /\ b' = 0
  /\ UNCHANGED <<worldVars, forceVars, file, keyframes, calls, motion_data_np, state,
                 c, loc_rot_frame, loc_rot_frame_all>>

\* lines 180-185: columns 6*i+1 .. 6*i+6 of row n (0-based) as loc and rot
CsvPose(rows, fr, i) == [k \in 1..6 |-> rows[fr + 1][6 * i + 1 + k]]

\* lines 180-191: one body of one frame
CsvBodyStep ==
  /\ pc = "csvloop" /\ b < Len(bodyNames)
  /\ IF 6 * b + 6 >= Len(csv_np[n + 1])
     THEN Fail("IndexError") /\ UNCHANGED <<keyframes, b>>
     ELSE IF bodyNames[b + 1] \notin objects
     THEN Fail("KeyError") /\ UNCHANGED <<keyframes, b>>
     ELSE /\ keyframes' = Append(keyframes,
                [call |-> callNo, frame |-> n + 1, body |-> bodyNames[b + 1],
                 pose |-> CsvPose(csv_np, n, b)])
          /\ b' = b + 1
          /\ UNCHANGED <<pc, err>>
  /\ UNCHANGED <<worldVars, forceVars, file, fps, calls, callNo, ext, times,
                 motion_data_np, state, n, c, loc_rot_frame, loc_rot_frame_all,
                 bodyNames, csv_np>>

\* the step of the loop of line 178
CsvNextFrame ==
  /\ pc = "csvloop" /\ b >= Len(bodyNames)
  /\ n' = n + 1 /\ b' = 0
  /\ pc' = IF n + 1 < Len(times) THEN "csvloop" ELSE "done"
  /\ UNCHANGED <<worldVars, forceVars, file, fps, keyframes, calls, callNo, ext, err, times,
                 motion_data_np, state, c, loc_rot_frame, loc_rot_frame_all,
                 bodyNames, csv_np>>

Next ==
  \/ CallMot \/ SetValue \/ StartBodies \/ BodyStep \/ EndFrame \/ ExportCsv
  \/ CallCsv \/ CsvBodyStep \/ CsvNextFrame

Spec == Init /\ [][Next]_vars

(***************************************************************************)
(* Properties of apply_mot_to_model.                                       *)
(***************************************************************************)
NumCoords == Len(model_coords)
NumBodies == Len(model_bodySet)

\* the pose .csv on disk was written by the .mot path
Written == file.present /\ mot_times # <<>>

\* the keyframes the current call inserted
OwnKeyframes == SelectSeq(keyframes, LAMBDA kf : kf.call = callNo)

HasKeyframe(fr, name) ==
  \E k \in 1..Len(keyframes) : keyframes[k].frame = fr /\ keyframes[k].body = name

\* C1: in the .mot path the model is driven frame by frame in ascending order:
\* within a frame every setValue precedes every getTransformInGround, a body is
\* queried only when every coordinate holds that frame's value, and a value of
\* the next frame is assigned only after every body of the frame was queried
\* and keyframed.
C1_FrameOrdering ==
  /\ \A p, q \in 1..Len(calls) :
       p < q =>
         /\ calls[p].frame <= calls[q].frame
         /\ calls[q].frame <= calls[p].frame + (q - p)
         /\ (calls[p].frame = calls[q].frame /\ calls[p].op = "getTransformInGround")
              => calls[q].op = "getTransformInGround"
  /\ (calls # <<>> => calls[1].frame = 0)
  /\ \A q \in 1..Len(calls) :
       /\ calls[q].op = "getTransformInGround" =>
            \A k \in 0..(NumCoords - 1) :
              \E p \in 1..(q - 1) :
                calls[p] = [op |-> "setValue", idx |-> k, frame |-> calls[q].frame]
       /\ (calls[q].op = "setValue" /\ calls[q].frame > 0) =>
            \A bi \in 0..(NumBodies - 1) :
              /\ \E p \in 1..(q - 1) :
                   calls[p] = [op |-> "getTransformInGround", idx |-> bi,
                               frame |-> calls[q].frame - 1]
              /\ HasKeyframe(calls[q].frame, model_bodySet[bi + 1])
  /\ (pc = "bodies" =>
        \A k \in 1..NumCoords : state[k] = motion_data_np[n + 1][k])

C1_Witness ==
  /\ ext = ".mot" /\ pc = "done" /\ err = "none"
  /\ NumCoords = 2 /\ NumBodies = 2 /\ Len(mot_times) = 2
  /\ Len(calls) = 8

\* the header line with the separator put between columns instead of trimmed
ExpectedHeader(names) ==
  LET cols == 6 * Len(names)
      col(j) == names[((j - 1) \div 6) + 1] \o Fields[((j - 1) % 6) + 1]
                  \o (IF j < cols THEN <<",", " ">> ELSE <<>>)
  IN  <<"#", " ", "t", "i", "m", "e", "s", ",", " ">>
        \o Concat([j \in 1..cols |-> col(j)]) \o <<"\n">>

\* the translation of the matrix keyframed for (frame fr, body name)
KeyframedLoc(fr, name) ==
  LET k == CHOOSE i \in 1..Len(keyframes) :
             keyframes[i].frame = fr /\ keyframes[i].body = name
      H == Transpose(keyframes[k].pose)
  IN  <<H[1][4], H[2][4], H[3][4]>>

\* C2: a .mot run that completes with export enabled leaves a file with one
\* row per frame in frame order, each row the time and then one six-value
\* group per body in body-set order, under a header naming the bodies in
\* that order.
C2_CsvShape ==
  (ext = ".mot" /\ pc = "done" /\ err = "none" /\ export_to_csv) =>
    /\ file.present
    /\ Len(file.rows) = Len(mot_times)
    /\ \A r \in 1..Len(file.rows) :
         /\ Len(file.rows[r]) = 1 + 6 * NumBodies
         /\ file.rows[r][1] = mot_times[r]
         /\ \A bi \in 1..NumBodies :
              SubSeq(file.rows[r], 6 * (bi - 1) + 2, 6 * (bi - 1) + 4)
                = KeyframedLoc(r, model_bodySet[bi])
    /\ file.header = ExpectedHeader(model_bodySet)

C2_Witness ==
  /\ ext = ".mot" /\ pc = "done" /\ err = "none" /\ export_to_csv
  /\ NumBodies = 2 /\ Len(file.rows) = 2 /\ Len(file.rows[1]) = 13

\* what the .csv path recovered agrees with what the .mot path wrote
ReadBackAgrees ==
  /\ bodyNames = model_bodySet
  /\ \A k \in 1..Len(OwnKeyframes) :
       LET kf == OwnKeyframes[k]
           i == ((k - 1) % NumBodies) + 1
       IN  /\ kf.body = model_bodySet[i]
           /\ kf.pose = SubSeq(file.rows[kf.frame], 6 * (i - 1) + 2, 6 * (i - 1) + 7)
  /\ (pc = "done" => Len(OwnKeyframes) = NumBodies * Len(file.rows))

\* C3: reading back a file the .mot path wrote recovers the body names in
\* order and gives body i of each frame the six values of columns 6*i+1 ..
\* 6*i+6, those written for it (stated for models with at least one body).
C3_RoundTrip == (Written /\ ext = ".csv" /\ NumBodies > 0) => ReadBackAgrees

NoComma(name) == \A j \in 1..Len(name) : name[j] # ","

\* the same round trip, for body names that hold no comma
C3_RoundTripPlainNames ==
  (/\ Written /\ ext = ".csv" /\ NumBodies > 0
   /\ \A i \in 1..NumBodies : NoComma(model_bodySet[i]))
    => ReadBackAgrees

\* the quotient len(times) / (t_last - t_first), as numerator and denominator
FpsNum == Len(times) * TickHz
FpsDen == times[Len(times)] - times[1]

FpsKnown == pc # "idle" /\ err = "none" /\ Len(times) >= 2 /\ FpsDen > 0

\* C8 as stated: the framerate is the quotient rounded to the nearest integer.
C8_FpsNearest ==
  FpsKnown =>
    /\ 2 * (FpsNum - fps * FpsDen) <= FpsDen
    /\ 2 * (fps * FpsDen - FpsNum) <= FpsDen

\* C8, amended: the framerate is the quotient with its fraction cut off.
C8_FpsTruncated ==
  FpsKnown => (fps * FpsDen <= FpsNum /\ FpsNum < (fps + 1) * FpsDen)

\* both paths have set the framerate from a quotient whose fraction is over 1/2
C8_Witness ==
  /\ FpsKnown /\ Written /\ ext = ".csv" /\ callNo = 2
  /\ 2 * (FpsNum % FpsDen) > FpsDen

\* C9: a pose .csv whose column count is not 1 + 6 * bodyCount fails the run
\* before any frame is processed: the call inserts no keyframe.
C9_MismatchFailsFirst ==
  (/\ ext = ".csv" /\ hasCollection /\ file.rows # <<>>
   /\ Len(file.rows[1]) # 1 + 6 * Len(bodyNames))
    => /\ OwnKeyframes = <<>>
       /\ (pc = "done" => err # "none")

\* C10: the six values of the body just decomposed all come from the
\* up-axis-converted matrix (the matrix itself under 'yup').
C10_ConvertedEntriesOnly ==
  (ext = ".mot" /\ pc = "bodies" /\ b > 0 /\ export_to_csv) =>
    LET tig == TransformInGround(state, b)
        H == IF direction = "zup" THEN MatMul(H_zup, Block(tig.R, tig.T))
             ELSE Block(tig.R, tig.T)
    IN  SubSeq(loc_rot_frame, 6 * (b - 1) + 1, 6 * b) = LocRotConverted(H, tig.R)

(***************************************************************************)
(* fpdata2locrot (forces.py).                                              *)
(***************************************************************************)
NoTable == [names |-> <<>>, rows |-> <<>>]

\* entity names, as readNames gives them: one per group of 9 raw fields
EntityPool == << <<"e", "0">>, <<"e", "1">>, <<"e", "2">> >>

\* the first group of 3 raw fields of an entity in a row, as the file may hold it
ArrowSet == << <<0, 0, 0>>, <<10, 0, 0>>, <<12, 16, 0>>, <<0, 0, 21>>, <<700, 0, 0>> >>

\* a raw record table: Header, then per entity 3 groups of 3 fields
RawTable(rows, cnt, pick) ==
  [r \in 1..rows |->
     <<100 + r>> \o Concat([j \in 1..cnt |->
        ArrowSet[((pick[j] + r) % Len(ArrowSet)) + 1]
          \o <<r, 2 * j, r + j>> \o <<7, 8, 9>>])]

InitForce ==
  /\ hasCollection = TRUE /\ model_bodySet = <<>> /\ objects = {}
  /\ model_coords = <<>> /\ mot_times = <<>> /\ mot_matrix = <<>>
  /\ direction = "zup" /\ export_to_csv = TRUE /\ file = NoFile
  /\ IdleCall
  /\ fpc = "idle" /\ ferr = "none" /\ fi = 0 /\ fj = 0
  /\ rotvals = <<>> /\ scalevals = <<>> /\ out = NoTable
  /\ \E cnt \in 0..MaxEntities, rows \in 0..MaxRows :
       \E pick \in [1..cnt -> 0..(Len(ArrowSet) - 1)] :
         /\ fpNames = SubSeq(EntityPool, 1, cnt)
         /\ d = RawTable(rows, cnt, pick)

\* lines 48-53: idx, the 0-based columns 9*i + {4, 5, 6}
Idx(cnt) == Concat([i \in 1..cnt |-> <<9 * (i - 1) + 4, 9 * (i - 1) + 5, 9 * (i - 1) + 6>>])

\* d[:, cols] for 0-based columns
Take(dd, cols) == [r \in 1..Len(dd) |-> [k \in 1..Len(cols) |-> dd[r][cols[k] + 1]]]

\* line 55: tails = d[:, idx]
Tails(dd, cnt) == Take(dd, Idx(cnt))

\* the columns of tails: idx without the shift of line 56
ArrowColsUnshifted(cnt) == Idx(cnt)

\* line 56: the columns idx - 3
ArrowCols(cnt) == [k \in 1..Len(Idx(cnt)) |-> Idx(cnt)[k] - 3]

\* line 56: arrow = d[:, idx - 3]
Arrow(dd, cnt) == Take(dd, ArrowCols(cnt))

\* Vector.magnitude
Magnitude(v) == ISqrt(v[1] * v[1] + v[2] * v[2] + v[3] * v[3])

\* Vector.normalized(): v / |v|; the zero vector comes back as it is (len 0)
Normalized(v) == [v |-> v, len |-> Magnitude(v)]

\* originalarrow.rotation_difference(normarrow).to_euler('XYZ')[k] * 180 / pi:
\* mathutils decides the angle; the model keeps what it was computed from
EulerDeg(normarrow, k) == [euler |-> k, of |-> normarrow]

\* thisarrow.magnitude / 700
ScaleX(v) == [num |-> Magnitude(v), den |-> 700]

\* lines 73-78 with the comparison turned into <=
ScaleYZInclusive(v) == IF Magnitude(v) <= 20 THEN 0 ELSE 1

\* lines 73-78: 0 below magnitude 20, else 1
ScaleYZ(v) == IF Magnitude(v) < 20 THEN 0 ELSE 1

\* lines 35-60: up to the loops.  The index built by lines 41-44 is dropped
\* by line 49; with no entity, line 53 calls astype on a list.
FpStart ==
  /\ fpc = "idle"
  /\ IF Len(fpNames) = 0
     THEN /\ fpc' = "done" /\ ferr' = "AttributeError"
          /\ UNCHANGED <<rotvals, scalevals>>
     ELSE /\ rotvals' = Tails(d, Len(fpNames))
          /\ scalevals' = Tails(d, Len(fpNames))
          /\ fpc' = IF Len(d) = 0 THEN "assemble" ELSE "loop"
          /\ UNCHANGED ferr
  /\ fi' = 0 /\ fj' = 0
  /\ UNCHANGED <<worldVars, sceneVars, callVars, fpNames, d, out>>

\* lines 64-78: one entity of one row (lines 80-84 only print)
FpStep ==
  /\ fpc = "loop"
  /\ LET arrow == Arrow(d, Len(fpNames))
         thisarrow == <<arrow[fi + 1][3 * fj + 1], arrow[fi + 1][3 * fj + 2],
                        arrow[fi + 1][3 * fj + 3]>>
         normarrow == Normalized(thisarrow)
     IN  /\ rotvals' = [rotvals EXCEPT ![fi + 1][3 * fj + 1] = EulerDeg(normarrow, 0),
                                       ![fi + 1][3 * fj + 2] = EulerDeg(normarrow, 1),
                                       ![fi + 1][3 * fj + 3] = EulerDeg(normarrow, 2)]
         /\ scalevals' = [scalevals EXCEPT ![fi + 1][3 * fj + 1] = ScaleX(thisarrow),
                                           ![fi + 1][3 * fj + 2] = ScaleYZ(thisarrow),
                                           ![fi + 1][3 * fj + 3] = ScaleYZ(thisarrow)]
  /\ IF fj + 1 < Len(fpNames)
     THEN fj' = fj + 1 /\ UNCHANGED <<fi, fpc>>
     ELSE /\ fj' = 0 /\ fi' = fi + 1
          /\ fpc' = IF fi + 1 < Len(d) THEN "loop" ELSE "assemble"
  /\ UNCHANGED <<worldVars, sceneVars, callVars, ferr, fpNames, d, out>>

\* the 9 column suffixes of lines 106-108
ForceFields == << <<"_", "x">>, <<"_", "y">>, <<"_", "z">>,
                  <<"_", "r", "o", "t", "x">>, <<"_", "r", "o", "t", "y">>,
                  <<"_", "r", "o", "t", "z">>,
                  <<"_", "s", "c", "a", "l", "e", "x">>,
                  <<"_", "s", "c", "a", "l", "e", "y">>,
                  <<"_", "s", "c", "a", "l", "e", "z">> >>

\* lines 103-109 stopping after the rotation columns
ColNamesNoScale(names) ==
  << <<"H", "e", "a", "d", "e", "r">> >>
    \o [k \in 1..(6 * Len(names)) |->
          names[((k - 1) \div 6) + 1] \o ForceFields[((k - 1) % 6) + 1]]

\* lines 103-109: colnames
ColNames(names) ==
  << <<"H", "e", "a", "d", "e", "r">> >>
    \o [k \in 1..(9 * Len(names)) |->
          names[((k - 1) \div 9) + 1] \o ForceFields[((k - 1) % 9) + 1]]

\* lines 86-102: one row of alltbl behind the Header value
TableRow(hdr, tl, rv, sv) ==
  <<hdr>> \o [k \in 1..(3 * Len(tl)) |->
     LET e == (k - 1) \div 9
         o == (k - 1) % 9
     IN  IF o < 3 THEN tl[3 * e + o + 1]
         ELSE IF o < 6 THEN rv[3 * e + (o - 3) + 1]
         ELSE sv[3 * e + (o - 6) + 1]]

\* lines 86-113: the output record array
FpAssemble ==
  /\ fpc = "assemble"
  /\ out' = [names |-> ColNames(fpNames),
             rows |-> [r \in 1..Len(d) |->
                TableRow(d[r][1], Tails(d, Len(fpNames))[r], rotvals[r], scalevals[r])]]
  /\ fpc' = "done"
  /\ UNCHANGED <<worldVars, sceneVars, callVars, ferr, fpNames, d, fi, fj,
                 rotvals, scalevals>>

NextForce == FpStart \/ FpStep \/ FpAssemble

SpecForce == InitForce /\ [][NextForce]_vars

(***************************************************************************)
(* Properties of fpdata2locrot.                                            *)
(***************************************************************************)
NumEntities == Len(fpNames)

\* the raw fields of entity j (0-based) in row r at flat offsets 9*j + {o+1, o+2, o+3}
RawGroup(r, j, o) == <<d[r][9 * j + o + 2], d[r][9 * j + o + 3], d[r][9 * j + o + 4]>>

SumSq(v) == v[1] * v[1] + v[2] * v[2] + v[3] * v[3]

Returned == fpc = "done" /\ ferr = "none"

\* C4: the returned table has the rows of the input, 1 + 9*N columns, the
\* Header column unchanged in front, and per entity the nine columns named
\* _x _y _z _rotx _roty _rotz _scalex _scaley _scalez in that order.
C4_TableShape ==
  Returned =>
    /\ Len(out.rows) = Len(d)
    /\ Len(out.names) = 1 + 9 * NumEntities
    /\ out.names[1] = <<"H", "e", "a", "d", "e", "r">>
    /\ \A r \in 1..Len(d) :
         Len(out.rows[r]) = 1 + 9 * NumEntities /\ out.rows[r][1] = d[r][1]
    /\ \A j \in 0..(NumEntities - 1) :
         /\ out.names[9 * j + 2] = fpNames[j + 1] \o <<"_", "x">>
         /\ out.names[9 * j + 3] = fpNames[j + 1] \o <<"_", "y">>
         /\ out.names[9 * j + 4] = fpNames[j + 1] \o <<"_", "z">>
         /\ out.names[9 * j + 5] = fpNames[j + 1] \o <<"_", "r", "o", "t", "x">>
         /\ out.names[9 * j + 6] = fpNames[j + 1] \o <<"_", "r", "o", "t", "y">>
         /\ out.names[9 * j + 7] = fpNames[j + 1] \o <<"_", "r", "o", "t", "z">>
         /\ out.names[9 * j + 8] = fpNames[j + 1] \o <<"_", "s", "c", "a", "l", "e", "x">>
         /\ out.names[9 * j + 9] = fpNames[j + 1] \o <<"_", "s", "c", "a", "l", "e", "y">>
         /\ out.names[9 * j + 10] = fpNames[j + 1] \o <<"_", "s", "c", "a", "l", "e", "z">>

C4_Witness == Returned /\ NumEntities = 2 /\ Len(d) = 2 /\ Len(out.rows) = 2

\* C5 as stated: the direction vector is the fields at offsets 9*i + {4,5,6}
\* minus the fields at offsets 9*i + {1,2,3}.
C5_ArrowIsDifference ==
  Returned =>
    \A r \in 1..Len(d) : \A j \in 0..(NumEntities - 1) :
      LET endpoint == RawGroup(r, j, 3)
          base == RawGroup(r, j, 0)
      IN  rotvals[r][3 * j + 1].of.v
            = <<endpoint[1] - base[1], endpoint[2] - base[2], endpoint[3] - base[3]>>

\* C5, amended: the direction vector is the fields at offsets 9*i + {1,2,3}
\* themselves; the fields at offsets 9*i + {4,5,6} only become the location.
C5_ArrowIsFirstGroup ==
  Returned =>
    \A r \in 1..Len(d) : \A j \in 0..(NumEntities - 1) :
      /\ \A k \in 1..3 : rotvals[r][3 * j + k].of.v = RawGroup(r, j, 0)
      /\ scalevals[r][3 * j + 1].num * scalevals[r][3 * j + 1].num
           = SumSq(RawGroup(r, j, 0))
      /\ SubSeq(out.rows[r], 9 * j + 2, 9 * j + 4) = RawGroup(r, j, 3)

C5_Witness ==
  /\ Returned /\ NumEntities = 2 /\ Len(d) = 2
  /\ \E r \in 1..Len(d) : \E j \in 0..(NumEntities - 1) :
       /\ RawGroup(r, j, 0) # <<0, 0, 0>>
       /\ RawGroup(r, j, 3) # RawGroup(r, j, 0)
       /\ RawGroup(r, j, 3) # <<0, 0, 0>>

\* C6: in the returned table scale_y = scale_z, both 0 when the magnitude of
\* the arrow is below 20 and both 1 from 20 on, and scale_x is the magnitude
\* over 700.
C6_Scale ==
  Returned =>
    \A r \in 1..Len(d) : \A j \in 0..(NumEntities - 1) :
      LET msq == SumSq(RawGroup(r, j, 0))
          sx == out.rows[r][9 * j + 8]
          sy == out.rows[r][9 * j + 9]
          sz == out.rows[r][9 * j + 10]
      IN  /\ sy = sz /\ sy \in {0, 1}
          /\ (sy = 0 <=> msq < 20 * 20)
          /\ sx.den = 700 /\ sx.num >= 0 /\ sx.num * sx.num = msq

\* a returned table with an arrow of magnitude exactly 20 and one below 20
C6_Witness ==
  /\ Returned
  /\ \E r \in 1..Len(d) : \E j \in 0..(NumEntities - 1) :
       SumSq(RawGroup(r, j, 0)) = 400 /\ out.rows[r][9 * j + 9] = 1
  /\ \E r \in 1..Len(d) : \E j \in 0..(NumEntities - 1) :
       SumSq(RawGroup(r, j, 0)) = 100 /\ out.rows[r][9 * j + 9] = 0

\* C7: with an arrow of magnitude 0 in the input the call fails with
\* DegenerateVectorError and returns no table.
C7_ZeroArrowFails ==
  (/\ fpc = "done"
   /\ \E r \in 1..Len(d) : \E j \in 0..(NumEntities - 1) :
        RawGroup(r, j, 0) = <<0, 0, 0>>)
    => (ferr = "DegenerateVectorError" /\ out = NoTable)

=============================================================================
